---- MODULE Spec2Model ----
(***************************************************************************)
(* The two chat scripts of the repository:                                 *)
(*   demo.py             a one-node graph (chatbot) inside a console loop   *)
(*   multi_node_demo.py  classifier -> route_by_intent -> one of four       *)
(*                       handlers -> END, inside the same console loop      *)
(*                                                                         *)
(* Text is a sequence of one-character strings, so that str.strip() and    *)
(* str.lower() are computed character by character.  The language model is *)
(* the environment: a completion request is answered with any text of a    *)
(* bounded set, or raises.  The print() calls are not modelled.            *)
(***************************************************************************)
EXTENDS Naturals, Sequences, FiniteSets, TLC

VARIABLES
    script,      \* which script the process runs: "multi" or "single"
    loop,        \* the while loop: "input", "turn", "exited", "crashed"
    pc,          \* the graph run: "none","start","classifying","routing","handling","done","failed"
    turn,        \* number of graph.stream calls made so far
    user_input,  \* the text last returned by input()
    state,       \* the State dict of the most recent graph run
    response,    \* the message last returned by a model client (local `response`)
    calls,       \* completion requests issued during the current graph run
    invoked,     \* nodes entered during the current graph run, in order
    routed,      \* values returned by route_by_intent during the current graph run
    pending,     \* the node the router chose, not yet entered ("none" otherwise)
    error        \* the exception raised and not caught: "none", "ModelError", ...

vars == <<script, loop, pc, turn, user_input, state, response, calls, invoked, routed,
          pending, error>>

\* ---------------------------------------------------------------- bounds
MaxTurns == 2
MaxPad == 1
MaxMsgs == 2

\* ------------------------------------------------------------------ text
S_joke == <<"j", "o", "k", "e">>
S_fact == <<"f", "a", "c", "t">>
S_advice == <<"a", "d", "v", "i", "c", "e">>
S_general == <<"g", "e", "n", "e", "r", "a", "l">>
S_exit == <<"e", "x", "i", "t">>
S_quit == <<"q", "u", "i", "t">>
S_empty == <<>>

UpperChars == <<"A", "B", "C", "D", "E", "F", "G", "H", "I", "J", "K", "L", "M",
                "N", "O", "P", "Q", "R", "S", "T", "U", "V", "W", "X", "Y", "Z">>
LowerChars == <<"a", "b", "c", "d", "e", "f", "g", "h", "i", "j", "k", "l", "m",
                "n", "o", "p", "q", "r", "s", "t", "u", "v", "w", "x", "y", "z">>

\* the control characters \x0b, \x1c, \x1d, \x1e, \x1f
VT == ""
FS == ""
GS == ""
RS == ""
US == ""

\* characters str.strip() removes: every ASCII character c with c.isspace()
\* (texts of the model are ASCII)
Whitespace == {" ", "\t", "\n", "\r", "\f", VT, FS, GS, RS, US}

lower_char(c) ==
    IF \E i \in 1..Len(UpperChars) : UpperChars[i] = c
    THEN LowerChars[CHOOSE i \in 1..Len(UpperChars) : UpperChars[i] = c]
    ELSE c

\* str.lower()
lower(s) == [i \in 1..Len(s) |-> lower_char(s[i])]

RECURSIVE lstrip(_)
lstrip(s) == IF s # <<>> /\ Head(s) \in Whitespace THEN lstrip(Tail(s)) ELSE s

RECURSIVE rstrip(_)
rstrip(s) ==
    IF s # <<>> /\ s[Len(s)] \in Whitespace THEN rstrip(SubSeq(s, 1, Len(s) - 1)) ELSE s

\* str.strip()
strip(s) == rstrip(lstrip(s))

\* ------------------------------------------------- the bounded input sets
upper_char(c) ==
    IF \E i \in 1..Len(LowerChars) : LowerChars[i] = c
    THEN UpperChars[CHOOSE i \in 1..Len(LowerChars) : LowerChars[i] = c]
    ELSE c

Upper(s) == [i \in 1..Len(s) |-> upper_char(s[i])]
Capitalized(s) == [i \in 1..Len(s) |-> IF i = 1 THEN upper_char(s[i]) ELSE s[i]]
CaseVariants(S) == S \cup {Upper(s) : s \in S} \cup {Capitalized(s) : s \in S}

PadChars == {" ", "\n"}
\* up to MaxPad copies of one padding character
Pads == {[i \in 1..k |-> c] : k \in 0..MaxPad, c \in PadChars}

\* what the classification request may be answered with, before padding
RawWords ==
    {S_joke, S_fact, S_advice, S_general, S_empty,
     <<"s", "p", "o", "r", "t", "s">>,
     <<"j", "o", "k", "e", ".">>,
     <<"a", " ", "j", "o", "k", "e">>,
     <<"j", "o", "k", "e", "s">>,
     <<VT, "j", "o", "k", "e", FS>>,
     <<GS, "f", "a", "c", "t", RS, US>>}

\* the words as they are, in capitals, and the labels with a capital initial
RawCased ==
    RawWords \cup {Upper(w) : w \in RawWords}
             \cup {Capitalized(w) : w \in {S_joke, S_fact, S_advice}}

RawOutputs == {l \o w \o r : l \in Pads, r \in Pads, w \in RawCased}

\* what a handler's request may be answered with
Replies == {<<"h", "a">>, <<"o", "k">>}

\* what input() may return
UserInputs ==
    CaseVariants({S_exit, S_quit})
    \cup {<<"e", "X", "i", "T">>,
          <<" ", "e", "x", "i", "t">>,
          <<"q", "u", "i", "t", " ">>,
          <<"e", "x", "i", "t", "s">>,
          S_empty,
          <<"h", "i">>,
          S_joke}

\* -------------------------------------------------------------- messages
HumanMessage(text) == [role |-> "user", content |-> text]
AIMessage(text) == [role |-> "assistant", content |-> text]
NoResponse == [role |-> "none", content |-> <<>>]

\* mutant: the messages key without its reducer, the update replaces the list
add_messages_overwrite(left, right) == right

\* the reducer of State.messages: the update is appended to the list
add_messages(left, right) == left \o right

\* state["messages"][-1].content
last_msg(st) == st.messages[Len(st.messages)].content

\* mutant: the loop starts the graph without the user message
initial_state_empty(text) ==
    IF script = "multi" THEN [messages |-> <<>>, intent |-> S_empty] ELSE [messages |-> <<>>]

\* mutant: the loop hands the previous run's transcript back in
initial_state_carry(text) ==
    IF script = "multi"
    THEN [messages |-> add_messages(state.messages, <<HumanMessage(text)>>), intent |-> S_empty]
    ELSE [messages |-> add_messages(state.messages, <<HumanMessage(text)>>)]

\* the dict each script hands to graph.stream
initial_state(text) ==
    IF script = "multi"
    THEN [messages |-> add_messages(<<>>, <<HumanMessage(text)>>), intent |-> S_empty]
    ELSE [messages |-> add_messages(<<>>, <<HumanMessage(text)>>)]

\* ------------------------------------------------------------- the graph
END == "__end__"
Handlers == {"joke_teller", "fact_provider", "advisor", "fallback"}

nodes == IF script = "multi" THEN {"classifier"} \cup Handlers ELSE {"chatbot"}

entry_point == IF script = "multi" THEN "classifier" ELSE "chatbot"

\* mutant: two targets of the path map crossed
conditional_edges_crossed ==
    [joke_teller |-> "fact_provider", fact_provider |-> "joke_teller",
     advisor |-> "advisor", fallback |-> "fallback"]

\* the path map given to add_conditional_edges
conditional_edges ==
    [joke_teller |-> "joke_teller", fact_provider |-> "fact_provider",
     advisor |-> "advisor", fallback |-> "fallback"]

\* mutant: the fallback handler's edge leads back to the classifier
edge_target_loop(node) == IF node = "fallback" THEN "classifier" ELSE END

\* add_edge(handler, END); set_finish_point("chatbot")
edge_target(node) == END

\* mutant: the raw output lower-cased but not stripped
classifier_intent_nostrip(content) ==
    LET intent == lower(content)
    IN  IF intent \notin {S_joke, S_fact, S_advice} THEN S_general ELSE intent

\* intent = response.content.strip().lower(), coerced into the label set
classifier_intent(content) ==
    LET intent == lower(strip(content))
    IN  IF intent \notin {S_joke, S_fact, S_advice} THEN S_general ELSE intent

\* mutant: the default of route_map.get is the intent label, not a node name
route_by_intent_general(st) ==
    LET intent == IF "intent" \in DOMAIN st THEN st.intent ELSE S_general
    IN  IF intent = S_joke THEN "joke_teller"
        ELSE IF intent = S_fact THEN "fact_provider"
        ELSE IF intent = S_advice THEN "advisor"
        ELSE "general"

\* route_map.get(state.get("intent", "general"), "fallback")
route_by_intent(st) ==
    LET intent == IF "intent" \in DOMAIN st THEN st.intent ELSE S_general
    IN  IF intent = S_joke THEN "joke_teller"
        ELSE IF intent = S_fact THEN "fact_provider"
        ELSE IF intent = S_advice THEN "advisor"
        ELSE "fallback"

\* mutant: every node of the graph uses the creative client
node_client_creative(node) == "creative_llm"

\* the client a node sends its request to
node_client(node) == IF node = "joke_teller" THEN "creative_llm" ELSE "llm"

\* the system message of a node's prompt (abbreviated)
node_persona(node) ==
    CASE node = "classifier" -> "intent classifier"
      [] node = "joke_teller" -> "hilarious comedian"
      [] node = "fact_provider" -> "knowledgeable encyclopedia"
      [] node = "advisor" -> "wise and empathetic advisor"
      [] node = "fallback" -> "friendly, helpful assistant"
      [] OTHER -> "none"

\* the request a node of the multi-node graph issues: system persona + last user text
node_request(node, st) ==
    [client |-> node_client(node), node |-> node, system |-> node_persona(node),
     input |-> <<HumanMessage(last_msg(st))>>]

\* mutant: chatbot sends only the last message
chatbot_request_last(st) ==
    [client |-> "llm", node |-> "chatbot", system |-> "none",
     input |-> <<st.messages[Len(st.messages)]>>]

\* the request chatbot issues: the whole transcript, no system message
chatbot_request(st) ==
    [client |-> "llm", node |-> "chatbot", system |-> "none", input |-> st.messages]

\* --------------------------------------------------------------- the loop
\* mutant: the input stripped before it is compared
is_sentinel_stripped(text) == lower(strip(text)) \in {S_exit, S_quit}

\* user_input.lower() in {"exit", "quit"}
is_sentinel(text) == lower(text) \in {S_exit, S_quit}

\* mutant: input is also read while a graph run is in progress
awaiting_input_any == loop \in {"input", "turn"}

\* the loop is at input(): no graph run is in progress
awaiting_input == loop = "input"

\* an exception nothing catches ends the process
Raise(exc) ==
    /\ error' = exc
    /\ pc' = "failed"
    /\ loop' = "crashed"

Init ==
    /\ script \in {"multi", "single"}
    /\ loop = "input"
    /\ pc = "none"
    /\ turn = 0
    /\ user_input = S_empty
    /\ state = [messages |-> <<>>]
    /\ response = NoResponse
    /\ calls = <<>>
    /\ invoked = <<>>
    /\ routed = <<>>
    /\ pending = "none"
    /\ error = "none"

\* user_input = input(); break on a sentinel, else graph.stream(initial state)
ReadInput(text) ==
    /\ awaiting_input
    /\ user_input' = text
    /\ IF is_sentinel(text)
       THEN /\ loop' = "exited"
            /\ UNCHANGED <<pc, turn, state, response, calls, invoked, routed, pending>>
       ELSE /\ turn < MaxTurns
            /\ turn' = turn + 1
            /\ loop' = "turn"
            /\ pc' = "start"
            /\ state' = initial_state(text)
            /\ response' = NoResponse
            /\ calls' = <<>>
            /\ invoked' = <<>>
            /\ routed' = <<>>
            /\ pending' = "none"
    /\ UNCHANGED <<script, error>>

\* input() at end of input: EOFError, which nothing catches, ends the process
InputEOF ==
    /\ awaiting_input
    /\ error' = "EOFError"
    /\ loop' = "crashed"
    /\ UNCHANGED <<script, pc, turn, user_input, state, response, calls, invoked, routed, pending>>

\* classifier, up to llm.invoke(classification_prompt)
ClassifierCall ==
    /\ loop = "turn" /\ pc = "start" /\ entry_point = "classifier"
    /\ invoked' = Append(invoked, "classifier")
    /\ IF state.messages = <<>>
       THEN /\ Raise("IndexError")
            /\ UNCHANGED calls
       ELSE /\ calls' = Append(calls, node_request("classifier", state))
            /\ pc' = "classifying"
            /\ UNCHANGED <<loop, error>>
    /\ UNCHANGED <<script, turn, user_input, state, response, routed, pending>>

\* mutant: classifier computes the intent but returns no update for it
ClassifierReturn_nowrite(raw) ==
    /\ loop = "turn" /\ pc = "classifying"
    /\ response' = AIMessage(raw)
    /\ pc' = "routing"
    /\ UNCHANGED <<script, loop, turn, user_input, state, calls, invoked, routed, pending, error>>

\* mutant: classifier asks again when the output is not one of the three labels
ClassifierReturn_retry(raw) ==
    /\ loop = "turn" /\ pc = "classifying"
    /\ response' = AIMessage(raw)
    /\ IF lower(strip(raw)) \in {S_joke, S_fact, S_advice}
       THEN /\ state' = [state EXCEPT !.intent = classifier_intent(raw)]
            /\ pc' = "routing"
            /\ UNCHANGED calls
       ELSE /\ calls' = Append(calls, node_request("classifier", state))
            /\ UNCHANGED <<state, pc>>
    /\ UNCHANGED <<script, loop, turn, user_input, invoked, routed, pending, error>>

\* mutant: classifier also returns its response as a message
ClassifierReturn_appends(raw) ==
    /\ loop = "turn" /\ pc = "classifying"
    /\ response' = AIMessage(raw)
    /\ state' = [state EXCEPT !.intent = classifier_intent(raw),
                              !.messages = add_messages(@, <<AIMessage(raw)>>)]
    /\ pc' = "routing"
    /\ UNCHANGED <<script, loop, turn, user_input, calls, invoked, routed, pending, error>>

\* classifier, from the response to return {"intent": intent}
ClassifierReturn(raw) ==
    /\ loop = "turn" /\ pc = "classifying"
    /\ response' = AIMessage(raw)
    /\ state' = [state EXCEPT !.intent = classifier_intent(raw)]
    /\ pc' = "routing"
    /\ UNCHANGED <<script, loop, turn, user_input, calls, invoked, routed, pending, error>>

\* mutant: classifier catches the error and falls back to the general intent
ClassifierFail_fallback ==
    /\ loop = "turn" /\ pc = "classifying"
    /\ state' = [state EXCEPT !.intent = S_general]
    /\ pc' = "routing"
    /\ UNCHANGED <<script, loop, turn, user_input, response, calls, invoked, routed, pending, error>>

\* llm.invoke raises inside classifier
ClassifierFail ==
    /\ loop = "turn" /\ pc = "classifying"
    /\ Raise("ModelError")
    /\ UNCHANGED <<script, turn, user_input, state, response, calls, invoked, routed, pending>>

\* the conditional edge after classifier: route_by_intent picks the next node, and
\* the classifier's event is yielded to the for loop (no "messages" in it)
Route ==
    /\ loop = "turn" /\ pc = "routing" /\ pending = "none"
    /\ LET r == route_by_intent(state)
       IN  /\ routed' = Append(routed, r)
           /\ IF r \in DOMAIN conditional_edges /\ conditional_edges[r] \in nodes
              THEN /\ pending' = conditional_edges[r]
                   /\ UNCHANGED <<loop, pc, error>>
              ELSE /\ Raise("KeyError")
                   /\ UNCHANGED pending
    /\ UNCHANGED <<script, turn, user_input, state, response, calls, invoked>>

\* the for loop asks for the next event: the chosen handler, up to its invoke
HandlerCall ==
    /\ loop = "turn" /\ pc = "routing" /\ pending # "none"
    /\ invoked' = Append(invoked, pending)
    /\ calls' = Append(calls, node_request(pending, state))
    /\ pending' = "none"
    /\ pc' = "handling"
    /\ UNCHANGED <<script, loop, turn, user_input, state, response, routed, error>>

\* a handler, from the response to return {"messages": [response]}, then its edge
HandlerReturn(reply) ==
    /\ loop = "turn" /\ pc = "handling" /\ script = "multi"
    /\ response' = AIMessage(reply)
    /\ state' = [state EXCEPT !.messages = add_messages(@, <<AIMessage(reply)>>)]
    /\ pc' = IF edge_target(invoked[Len(invoked)]) = END THEN "done" ELSE "start"
    /\ UNCHANGED <<script, loop, turn, user_input, calls, invoked, routed, pending, error>>

\* mutant: a handler that appends an empty reply before the error leaves it
HandlerFail_partial ==
    /\ loop = "turn" /\ pc = "handling" /\ script = "multi"
    /\ state' = [state EXCEPT !.messages = add_messages(@, <<AIMessage(S_empty)>>)]
    /\ Raise("ModelError")
    /\ UNCHANGED <<script, turn, user_input, response, calls, invoked, routed, pending>>

\* the client's invoke raises inside a handler
HandlerFail ==
    /\ loop = "turn" /\ pc = "handling" /\ script = "multi"
    /\ Raise("ModelError")
    /\ UNCHANGED <<script, turn, user_input, state, response, calls, invoked, routed, pending>>

\* chatbot, up to llm.invoke(state["messages"])
ChatbotCall ==
    /\ loop = "turn" /\ pc = "start" /\ entry_point = "chatbot"
    /\ invoked' = Append(invoked, "chatbot")
    /\ calls' = Append(calls, chatbot_request(state))
    /\ pc' = "handling"
    /\ UNCHANGED <<script, loop, turn, user_input, state, response, routed, pending, error>>

\* chatbot, return {"messages": [response]}, then the finish point
ChatbotReturn(reply) ==
    /\ loop = "turn" /\ pc = "handling" /\ script = "single"
    /\ response' = AIMessage(reply)
    /\ state' = [state EXCEPT !.messages = add_messages(@, <<AIMessage(reply)>>)]
    /\ pc' = IF edge_target(invoked[Len(invoked)]) = END THEN "done" ELSE "start"
    /\ UNCHANGED <<script, loop, turn, user_input, calls, invoked, routed, pending, error>>

\* llm.invoke raises inside chatbot
ChatbotFail ==
    /\ loop = "turn" /\ pc = "handling" /\ script = "single"
    /\ Raise("ModelError")
    /\ UNCHANGED <<script, turn, user_input, state, response, calls, invoked, routed, pending>>

\* the stream is exhausted: the for loop ends and while True asks for input again
LoopBack ==
    /\ loop = "turn" /\ pc = "done"
    /\ loop' = "input"
    /\ UNCHANGED <<script, pc, turn, user_input, state, response, calls, invoked, routed, pending, error>>

Next ==
    \/ \E text \in UserInputs : ReadInput(text)
    \/ InputEOF
    \/ ClassifierCall
    \/ \E raw \in RawOutputs : ClassifierReturn(raw)
    \/ ClassifierFail
    \/ Route
    \/ HandlerCall
    \/ \E reply \in Replies : HandlerReturn(reply)
    \/ HandlerFail
    \/ ChatbotCall
    \/ \E reply \in Replies : ChatbotReturn(reply)
    \/ ChatbotFail
    \/ LoopBack

Spec == Init /\ [][Next]_vars

\* ------------------------------------------------ further specifications
\* Transcripts a caller of the graph may start a run from: one to MaxMsgs messages,
\* at least one of them a user message.
SampleMessages == {HumanMessage(<<"h", "i">>), HumanMessage(S_joke), AIMessage(<<"o", "k">>)}

Transcripts ==
    {t \in UNION {[1..k -> SampleMessages] : k \in 1..MaxMsgs} :
        \E i \in DOMAIN t : t[i].role = "user"}

\* graph.stream called directly on any such transcript (any placeholder intent)
InitGraph ==
    /\ script \in {"multi", "single"}
    /\ loop = "turn"
    /\ pc = "start"
    /\ turn = 1
    /\ user_input = S_empty
    /\ state \in IF script = "multi"
                 THEN {[messages |-> t, intent |-> i] : t \in Transcripts, i \in {S_empty, S_joke}}
                 ELSE {[messages |-> t] : t \in Transcripts}
    /\ response = NoResponse
    /\ calls = <<>>
    /\ invoked = <<>>
    /\ routed = <<>>
    /\ pending = "none"
    /\ error = "none"

SpecGraph == InitGraph /\ [][Next]_vars

\* State dicts route_by_intent may be handed: any intent text, or no intent key
RouterInputs ==
    {[messages |-> <<HumanMessage(<<"h", "i">>)>>, intent |-> i] : i \in RawOutputs}
    \cup {[messages |-> <<HumanMessage(<<"h", "i">>)>>]}

\* the conditional edge evaluated on any such State
InitRouter ==
    /\ script = "multi"
    /\ loop = "turn"
    /\ pc = "routing"
    /\ turn = 1
    /\ user_input = <<"h", "i">>
    /\ state \in RouterInputs
    /\ response = NoResponse
    /\ calls = <<node_request("classifier", state)>>
    /\ invoked = <<"classifier">>
    /\ routed = <<>>
    /\ pending = "none"
    /\ error = "none"

NextRouter == Route

SpecRouter == InitRouter /\ [][NextRouter]_vars

\* the sampling temperature of a client, in tenths (0.9 -> 9)
client_temperature(client) == IF client = "creative_llm" THEN 9 ELSE 0

\* a step of the running graph or of the for loop over its events: the single
\* thread takes it as soon as the call it waits for has returned
RunStep ==
    \/ ClassifierCall
    \/ \E raw \in RawOutputs : ClassifierReturn(raw)
    \/ Route
    \/ HandlerCall
    \/ \E reply \in Replies : HandlerReturn(reply)
    \/ ChatbotCall
    \/ \E reply \in Replies : ChatbotReturn(reply)
    \/ LoopBack

\* the scripts when every completion request returns a response
NextReturns ==
    \/ \E text \in UserInputs : ReadInput(text)
    \/ InputEOF
    \/ RunStep

SpecReturns == InitGraph /\ [][NextReturns]_vars /\ WF_vars(RunStep)

\* ---------------------------------------------------------------- claims
IsPrefix(s, t) == Len(s) <= Len(t) /\ SubSeq(t, 1, Len(s)) = s

HandlersInvoked == {i \in DOMAIN invoked : invoked[i] \in Handlers}

\* C1: in every turn of the multi-node graph at most one of the four handlers
\* executes; before the router has run none has; once it has run exactly one has,
\* and it is the handler route_by_intent returns for the classified intent.
C1_ExactlyOneHandler ==
    script = "multi" =>
        /\ Cardinality(HandlersInvoked) <= 1
        /\ pc \in {"start", "classifying", "routing"} => HandlersInvoked = {}
        /\ pc \in {"handling", "done"} =>
              /\ Cardinality(HandlersInvoked) = 1
              /\ \A i \in HandlersInvoked :
                    /\ invoked[i] = route_by_intent(state)
                    /\ invoked[i] = routed[Len(routed)]

C1_Witness ==
    /\ script = "multi" /\ pc = "done"
    /\ state.intent = S_advice
    /\ invoked = <<"classifier", "advisor">>

\* C2: route_by_intent returns exactly one handler identifier for every intent
\* (joke, fact, advice map to their handler; general, the empty string, a missing
\* intent and any other text map to fallback), and the identifier is a key of the
\* conditional-edge table whose target is a registered node.
C2_RoutingTotal ==
    (script = "multi" /\ routed # <<>>) =>
        LET r == routed[Len(routed)]
        IN  /\ Len(routed) = 1
            /\ r \in Handlers
            /\ r = "joke_teller" <=> ("intent" \in DOMAIN state /\ state.intent = S_joke)
            /\ r = "fact_provider" <=> ("intent" \in DOMAIN state /\ state.intent = S_fact)
            /\ r = "advisor" <=> ("intent" \in DOMAIN state /\ state.intent = S_advice)
            /\ r \in DOMAIN conditional_edges
            /\ conditional_edges[r] \in nodes
            /\ error # "KeyError"
            /\ (pc = "routing" /\ turn = 1) => pending = conditional_edges[r]
            /\ pending \in nodes \cup {"none"}

C2_Witness ==
    /\ "intent" \notin DOMAIN state
    /\ routed = <<"fallback">>
    /\ pending = "fallback"

\* c is one of the ten ASCII characters Python counts as whitespace
IsSpace(c) ==
    \/ c = " " \/ c = "\t" \/ c = "\n" \/ c = "\r" \/ c = "\f"
    \/ c = VT \/ c = FS \/ c = GS \/ c = RS \/ c = US

\* SubSeq(s, i, j) is s without its leading and trailing whitespace
TrimsTo(s, i, j) ==
    /\ \A k \in 1..Len(s) : (k < i \/ k > j) => IsSpace(s[k])
    /\ i <= j => (~IsSpace(s[i]) /\ ~IsSpace(s[j]))
    /\ i > j => (i = Len(s) + 1 /\ j = Len(s))

\* n is m with every capital letter replaced by its small letter
IsLowerOf(n, m) ==
    /\ Len(n) = Len(m)
    /\ \A k \in 1..Len(m) :
          IF \E a \in 1..Len(UpperChars) : UpperChars[a] = m[k]
          THEN \E a \in 1..Len(UpperChars) : UpperChars[a] = m[k] /\ LowerChars[a] = n[k]
          ELSE n[k] = m[k]

\* C3: when classifier has returned, the stored intent is the raw output trimmed
\* and lower-cased if that is joke, fact or advice, and general otherwise.
C3_ClassifierNormalizes ==
    (script = "multi" /\ pc = "routing" /\ turn > 0 /\ response # NoResponse) =>
        LET raw == response.content
        IN  /\ state.intent \in {S_joke, S_fact, S_advice, S_general}
            /\ \A label \in {S_joke, S_fact, S_advice} :
                  state.intent = label <=>
                      \E i \in 1..(Len(raw) + 1), j \in 0..Len(raw) :
                          TrimsTo(raw, i, j) /\ IsLowerOf(label, SubSeq(raw, i, j))

C3_Witness ==
    /\ pc = "routing"
    /\ response.content = <<" ", VT, "J", "O", "K", "E", FS, "\n">>
    /\ state.intent = S_joke

\* C4: a successful turn appends exactly one message: until the handler returns
\* the transcript is unchanged, and the step that reaches done leaves the N earlier
\* messages in place and adds one assistant message, the handler's reply.
C4_SingleAppend ==
    [][turn' = turn =>
          IF pc # "done" /\ pc' = "done"
          THEN /\ Len(state'.messages) = Len(state.messages) + 1
               /\ SubSeq(state'.messages, 1, Len(state.messages)) = state.messages
               /\ state'.messages[Len(state'.messages)].role = "assistant"
               /\ state'.messages[Len(state'.messages)] = response'
          ELSE state'.messages = state.messages]_vars

C4_Witness ==
    /\ script = "multi" /\ pc = "done" /\ turn = 1
    /\ Len(state.messages) = MaxMsgs + 1
    /\ state.messages[MaxMsgs].role = "assistant"
    /\ invoked = <<"classifier", "fallback">>

\* C5: when the model client raises while a handler is running, no message has
\* been appended to the turn's transcript and the error is not caught: it leaves
\* the graph run and reaches the caller.
C5_HandlerFailureAppendsNothing ==
    (pc = "failed" /\ HandlersInvoked # {}) =>
        /\ error = "ModelError"
        /\ loop = "crashed"
        /\ state.messages = <<HumanMessage(user_input)>>
        /\ \A i \in DOMAIN state.messages : state.messages[i].role # "assistant"

C5_Witness ==
    /\ pc = "failed" /\ error = "ModelError"
    /\ invoked = <<"classifier", "joke_teller">>
    /\ Len(calls) = 2

\* C6 as stated: the transcript a turn starts from has the transcript the previous
\* turn ended with as a prefix.
C6_TranscriptCarriedAcrossTurns ==
    [][turn' # turn => IsPrefix(state.messages, state'.messages)]_vars

\* C6, amended: within a turn the transcript is append-only; every turn starts
\* from a new transcript holding only the user message just read.
C6_AppendOnlyWithinTurn ==
    [][/\ turn' = turn => IsPrefix(state.messages, state'.messages)
       /\ turn' # turn => state'.messages = <<HumanMessage(user_input')>>]_vars

C6_Witness ==
    /\ turn = 2 /\ pc = "done"
    /\ Len(state.messages) = 2

\* C7 as stated: a turn that failed with a collaborator error leaves the chat loop
\* running, ready for another input.
C7_LoopSurvivesFailedTurn ==
    pc = "failed" => loop \in {"input", "turn"}

\* the pc steps of one run of the multi-node graph
TurnOrder ==
    {<<"start", "classifying">>, <<"classifying", "routing">>,
     <<"routing", "handling">>, <<"handling", "done">>}

\* C8: a turn of the multi-node graph moves start -> classifying -> routing ->
\* handling -> done and in no other way: classifier runs first and once, the router
\* is evaluated once and after classifier, a handler runs only after the router
\* chose it, and nothing runs after done.
C8_TurnOrder ==
    [][script = "multi" =>
          /\ (turn' = turn /\ pc' # pc /\ pc' # "failed") => <<pc, pc'>> \in TurnOrder
          /\ turn' # turn => (pc \in {"none", "done"} /\ pc' = "start")
          /\ pc' = "start" => (invoked' = <<>> /\ routed' = <<>>)
          /\ pc' = "classifying" => (invoked' = <<"classifier">> /\ routed' = <<>>)
          /\ pc' = "routing" =>
                /\ invoked' = <<"classifier">>
                /\ Len(routed') <= 1
                /\ routed' = <<>> <=> pending' = "none"
                /\ routed' # <<>> => pending' = routed'[1]
          /\ pc' \in {"handling", "done"} =>
                /\ Len(invoked') = 2 /\ invoked'[1] = "classifier"
                /\ invoked'[2] \in Handlers
                /\ routed' = <<invoked'[2]>>
          /\ (pc = "done" /\ turn' = turn) =>
                (pc' = "done" /\ invoked' = invoked /\ calls' = calls /\ state' = state)]_vars

C8_Witness ==
    /\ script = "multi" /\ pc = "done"
    /\ invoked = <<"classifier", "fact_provider">>
    /\ routed = <<"fact_provider">>

\* C9: input() is called only when no graph run is in progress: a new turn starts
\* only from the loop's input position, with the previous run (if any) at done.
C9_TurnsSequential ==
    [][/\ turn' # turn =>
             (loop = "input" /\ pc \in {"none", "done"} /\ turn' = turn + 1)
       /\ user_input' # user_input => (loop = "input" /\ pc \in {"none", "done"})
       /\ pc' \in {"start", "classifying", "routing", "handling"} => loop' = "turn"]_vars

C9_Witness ==
    /\ turn = 2 /\ pc = "classifying" /\ loop = "turn"

\* text equals word up to the case of its letters
SameUpToCase(text, word) ==
    /\ Len(text) = Len(word)
    /\ \A k \in 1..Len(word) :
          \E a \in 1..Len(LowerChars) :
              LowerChars[a] = word[k] /\ text[k] \in {LowerChars[a], UpperChars[a]}

\* C10: an input that is exit or quit in any letter case ends the loop and starts
\* nothing; any other input (the empty string, a padded sentinel) starts exactly
\* one turn, and when that turn is done the loop asks for input again; nothing
\* runs after the loop has ended.
C10_Sentinels ==
    [][/\ (loop = "input" /\ error' = "none") =>
             IF SameUpToCase(user_input', S_exit) \/ SameUpToCase(user_input', S_quit)
             THEN /\ loop' = "exited"
                  /\ turn' = turn /\ pc' = pc
                  /\ calls' = calls /\ invoked' = invoked /\ state' = state
             ELSE /\ loop' = "turn" /\ pc' = "start"
                  /\ turn' = turn + 1
                  /\ calls' = <<>> /\ invoked' = <<>>
       /\ (loop = "turn" /\ pc = "done") => (loop' = "input" /\ turn' = turn)
       /\ loop # "exited"]_vars

C10_Witness ==
    /\ loop = "exited" /\ turn = 2 /\ pc = "done"
    /\ user_input = <<"Q", "U", "I", "T">>
    /\ state.messages[1].content = <<" ", "e", "x", "i", "t">>

\* label is what raw becomes when it is trimmed and lower-cased
NormalizesTo(raw, label) ==
    \E i \in 1..(Len(raw) + 1), j \in 0..Len(raw) :
        TrimsTo(raw, i, j) /\ IsLowerOf(label, SubSeq(raw, i, j))

\* C11: whenever the router is evaluated, the intent it reads is one of joke, fact,
\* advice, general and is the one classifier derived from the response it received
\* in this turn; the placeholder '' never reaches the router.
C11_RouterReadsClassifiedIntent ==
    [][Len(routed') > Len(routed) =>
          /\ state.intent \in {S_joke, S_fact, S_advice, S_general}
          /\ state.intent # S_empty
          /\ invoked = <<"classifier">>
          /\ Len(calls) = 1 /\ calls[1].node = "classifier"
          /\ calls[1].input = <<state.messages[Len(state.messages)]>>
          /\ response.role = "assistant"
          /\ \A label \in {S_joke, S_fact, S_advice} :
                state.intent = label <=> NormalizesTo(response.content, label)
          /\ state' = state]_vars

C11_Witness ==
    /\ script = "multi" /\ turn = 2 /\ pc = "handling"
    /\ state.intent = S_fact
    /\ routed = <<"fact_provider">>

\* C12: when the model client raises during classification the turn is aborted
\* there: the intent stays unset, the router is not evaluated, no handler is
\* entered, no second request is issued and no message is appended.
C12_ClassifierFailureAborts ==
    [][/\ (pc = "classifying" /\ response' = response) =>
             /\ pc' = "failed" /\ error' = "ModelError"
             /\ state' = state
             /\ state'.intent \notin {S_joke, S_fact, S_advice, S_general}
             /\ routed' = <<>>
             /\ invoked' = <<"classifier">>
             /\ Len(calls') = 1
       /\ pc # "failed"]_vars

C12_Witness ==
    /\ script = "multi" /\ pc = "failed" /\ error = "ModelError"
    /\ invoked = <<"classifier">>
    /\ routed = <<>>
    /\ state.intent = S_empty

\* C13: a successful turn of the multi-node graph issues exactly two completion
\* requests, the classifier's and then the selected handler's; whatever the raw
\* classifier output is, the classification request is issued once and no error
\* is raised for it.
C13_TwoRequestsPerTurn ==
    script = "multi" =>
        /\ pc \in {"classifying", "routing"} =>
              (Len(calls) = 1 /\ calls[1].node = "classifier")
        /\ pc = "routing" => error = "none"
        /\ pc \in {"handling", "done"} =>
              /\ Len(calls) = 2
              /\ calls[1].node = "classifier"
              /\ calls[2].node \in Handlers
              /\ calls[2].node = invoked[Len(invoked)]
              /\ loop = "turn" => error = "none"
              /\ error \in {"none", "EOFError"}

C13_Witness ==
    /\ script = "multi" /\ pc = "done"
    /\ state.intent = S_general
    /\ Len(calls) = 2
    /\ calls[2].node = "fallback"

\* steps a graph run still has to take from each position
StepsLeft(p, q) ==
    CASE p = "start" -> IF script = "multi" THEN 5 ELSE 2
      [] p = "classifying" -> 4
      [] p = "routing" -> IF q = "none" THEN 3 ELSE 2
      [] p = "handling" -> 1
      [] OTHER -> 0

\* C14: when every completion request returns, a turn of the multi-node graph that
\* has started reaches done; every step of a turn (classifier's call and return,
\* the routing decision, the handler's call and return) takes it exactly one
\* position nearer to done, so the number of steps is bounded and none repeats.
C14_TurnTerminates ==
    /\ [][(turn' = turn /\ <<pc', pending'>> # <<pc, pending>>) =>
             StepsLeft(pc', pending') + 1 = StepsLeft(pc, pending)]_vars
    /\ [](script = "multi" => Len(invoked) <= 2 /\ Len(calls) <= 2 /\ Len(routed) <= 1)
    /\ ((script = "multi" /\ pc = "start") ~> (pc = "done"))

C14_Witness ==
    /\ script = "multi" /\ pc = "done" /\ turn = 1
    /\ Len(state.messages) = MaxMsgs + 1
    /\ Len(invoked) = 2

\* C15: within a turn the creative client (temperature 0.9) receives a request
\* exactly when the selected handler is joke_teller, and that request is the
\* handler's; classifier, fact_provider, advisor and fallback send theirs to the
\* deterministic client (temperature 0).
C15_CreativeClientOnlyForJokes ==
    script = "multi" =>
        /\ \A i \in DOMAIN calls :
              /\ calls[i].client \in {"llm", "creative_llm"}
              /\ client_temperature(calls[i].client) = 9 <=> calls[i].node = "joke_teller"
              /\ calls[i].node \in {"classifier", "fact_provider", "advisor", "fallback"} =>
                    (calls[i].client = "llm" /\ client_temperature(calls[i].client) = 0)
        /\ pc \in {"handling", "done"} =>
              ((\E i \in DOMAIN calls : calls[i].client = "creative_llm")
                  <=> routed = <<"joke_teller">>)
        /\ pc \in {"start", "classifying", "routing"} =>
              \A i \in DOMAIN calls : calls[i].client = "llm"

C15_Witness ==
    /\ script = "multi" /\ pc = "done"
    /\ routed = <<"joke_teller">>
    /\ calls[1].client = "llm"
    /\ calls[2].client = "creative_llm"

\* C16: in the single-node script a turn is start -> handling -> done with no
\* classification or routing: chatbot runs once, issues one request that carries
\* the whole transcript, and the turn ends with exactly that reply appended.
C16_SingleNodeTurn ==
    [][script = "single" =>
          /\ (turn' = turn /\ pc' # pc /\ pc' # "failed") =>
                <<pc, pc'>> \in {<<"start", "handling">>, <<"handling", "done">>}
          /\ routed' = <<>> /\ "intent" \notin DOMAIN state'
          /\ pc' = "start" => (invoked' = <<>> /\ calls' = <<>>)
          /\ pc' \in {"handling", "done"} =>
                /\ invoked' = <<"chatbot">>
                /\ Len(calls') = 1
                /\ calls'[1].node = "chatbot" /\ calls'[1].client = "llm"
          /\ pc' = "handling" => calls'[1].input = state'.messages
          /\ pc' = "done" =>
                /\ response'.role = "assistant"
                /\ state'.messages = calls'[1].input \o <<response'>>]_vars

C16_Witness ==
    /\ script = "single" /\ pc = "done" /\ turn = 1
    /\ Len(state.messages) = MaxMsgs + 1
    /\ Len(calls) = 1 /\ Len(calls[1].input) = MaxMsgs

\* C17: the classifier step changes the intent and not the transcript, a handler
\* step changes the transcript and not the intent; so the handler's request
\* carries the same last message as the classifier's.
C17_FrameOfNodes ==
    [][script = "multi" =>
          /\ (pc = "classifying" /\ pc' = "routing") =>
                (state'.messages = state.messages /\ DOMAIN state' = DOMAIN state)
          /\ (pc = "handling" /\ pc' = "done") =>
                (state'.intent = state.intent /\ DOMAIN state' = DOMAIN state)
          /\ Len(calls') = 2 => calls'[2].input = calls'[1].input]_vars

C17_Witness ==
    /\ script = "multi" /\ pc = "done"
    /\ state.intent = S_joke
    /\ Len(state.messages) = MaxMsgs + 1
    /\ calls[2].input = calls[1].input

\* C18: every graph run the chat loop starts begins with a transcript of exactly
\* one message, the user message with the text just read; no node is entered on
\* an empty transcript and the IndexError of last_msg never occurs.
C18_LoopStartsValidTurn ==
    /\ pc = "start" => state.messages = <<[role |-> "user", content |-> user_input]>>
    /\ invoked # <<>> => state.messages # <<>>
    /\ pc # "none" => state.messages # <<>>
    /\ error # "IndexError"

C18_Witness ==
    /\ pc = "classifying" /\ turn = 2
    /\ user_input = S_empty
    /\ state.messages = <<HumanMessage(S_empty)>>

====
